---------------------------- MODULE Spec2Model ----------------------------
(***************************************************************************)
(* A model of package gox of lwmacct/251219-go-pkg-ginm: the Result and    *)
(* Optional containers, the MultiError collector, the collection           *)
(* combinators and the numeric reducers.                                   *)
(*                                                                         *)
(* Every call of a function of the package is one action.  A call's        *)
(* outcome is a record [panic, val]: panic is TRUE when the call aborts    *)
(* (a Go panic), and val is then the panic value.  Callbacks are total     *)
(* functions drawn from finite sets; a callback's side effect is modelled  *)
(* by the list of the arguments it was invoked with.                       *)
(***************************************************************************)
EXTENDS Integers, Sequences, FiniteSets, TLC

(***************************************************************************)
(* Bounds of the model.                                                    *)
(***************************************************************************)
\* Values of the type parameter T are 0 .. MaxVal; 0 is T's zero value.
MaxVal == 2
\* Slices and argument lists hold at most MaxLen elements.
MaxLen == 3
\* The machine integer (Go's int) has IntBits bits.
IntBits == 4
\* Add and AddAll are handed at most MaxArgs arguments in all.
MaxArgs == 4

VARIABLES
    r,          \* the Result value the caller currently holds
    o,          \* the Optional value the caller currently holds
    last,       \* the last call: its name, inputs and outcome
    errors,     \* MultiError.errors of the one shared instance
    hist,       \* every argument handed to Add / AddAll so far, in call order
    call,       \* the call of a pure function about to be made: its name and inputs
    mem,        \* the backing arrays of the slices of a call, by array number
    procs       \* the goroutines sharing the MultiError: where each one is in Add

vars == <<r, o, last, errors, hist, call, mem, procs>>

(***************************************************************************)
(* Values.                                                                 *)
(***************************************************************************)
Vals == 0 .. MaxVal
Zero == 0

\* The nil error, and the non-nil error values.  An error value is
\* identified by its name; Msg gives its message and Wraps the error it
\* wraps (errors.Unwrap), NilErr when it wraps none.
NilErr == "nil"
Errs == {"e1", "e2", "w1"}
ErrArgs == Errs \cup {NilErr}
Msg(e) == CASE e = "e1" -> "e1" [] e = "e2" -> "e2" [] e = "w1" -> "ctx: e1" [] OTHER -> ""
Wraps(e) == IF e = "w1" THEN "e1" ELSE NilErr

\* The outcome of a call: a normal return, a panic, or a loop that never
\* ends (hang).
Ok(v) == [panic |-> FALSE, hang |-> FALSE, val |-> v]
Panic(v) == [panic |-> TRUE, hang |-> FALSE, val |-> v]
Hang == [panic |-> FALSE, hang |-> TRUE, val |-> "no return"]

\* Go's int: IntBits wide, two's complement, wrapping on overflow.
MaxInt == 2 ^ (IntBits - 1) - 1
MinInt == -MaxInt - 1
Ints == MinInt .. MaxInt
Wrap(x) == ((x - MinInt) % (2 ^ IntBits)) + MinInt
Abs(x) == IF x < 0 THEN -x ELSE x
\* Go's integer division: truncated toward zero, MinInt / -1 wrapping.
Quo(a, b) ==
    LET q == Abs(a) \div Abs(b)
    IN  Wrap(IF (a < 0) # (b < 0) THEN -q ELSE q)

\* s[i] with Go's bounds check, i counted from 0.
IndexAt(s, i) ==
    IF i < 0 \/ i >= Len(s) THEN Panic("index out of range") ELSE Ok(s[i + 1])

\* A slice: nil, or present with its elements.
NilSlice == [isNil |-> TRUE, elems |-> <<>>]
Slice(s) == [isNil |-> FALSE, elems |-> s]

SeqsUpTo(S, n) == UNION {[1 .. k -> S] : k \in 0 .. n}

(***************************************************************************)
(* result.go                                                               *)
(***************************************************************************)
ROk(data) == [data |-> data, err |-> NilErr]

RErr(err) == [data |-> Zero, err |-> err]

\* RErr[[]T]: the zero value of a slice type is the nil slice.
RErrSlice(err) == [data |-> NilSlice, err |-> err]

Try(fnret) == IF fnret.err # NilErr THEN RErr(fnret.err) ELSE ROk(fnret.data)

IsOk(x) == x.err = NilErr

IsErr(x) == x.err # NilErr

Unwrap_NoPanic(x) == Ok(x.data)
Unwrap(x) == IF x.err # NilErr THEN Panic(x.err) ELSE Ok(x.data)

UnwrapErr(x) ==
    IF x.err = NilErr THEN Panic("called UnwrapErr on an Ok value") ELSE Ok(x.err)

\* AndThen returns [ret, calls]: calls lists the arguments fn was invoked with.
AndThen_Eager(x, fn) ==
    [ret |-> IF x.err # NilErr THEN x ELSE fn[x.data], calls |-> <<x.data>>]
AndThen(x, fn) ==
    IF x.err # NilErr
    THEN [ret |-> x, calls |-> <<>>]
    ELSE [ret |-> fn[x.data], calls |-> <<x.data>>]

\* Collect's loop from index i (1-based) with the values gathered so far.
\* inspected is the number of elements of results the loop has read.
RECURSIVE CollectLoop(_, _, _)
CollectLoop(results, i, data) ==
    IF i > Len(results)
    THEN [ret |-> ROk(Slice(data)), inspected |-> i - 1]
    ELSE IF results[i].err # NilErr
         THEN [ret |-> RErrSlice(results[i].err), inspected |-> i]
         ELSE CollectLoop(results, i + 1, Append(data, results[i].data))

Collect_LastError(results) ==
    LET bad == {i \in 1 .. Len(results) : results[i].err # NilErr}
    IN  IF bad = {}
        THEN CollectLoop(results, 1, <<>>)
        ELSE LET k == CHOOSE i \in bad : \A j \in bad : j <= i
             IN  [ret |-> RErrSlice(results[k].err), inspected |-> k]
Collect(results) == CollectLoop(results, 1, <<>>)

(***************************************************************************)
(* optional.go                                                             *)
(***************************************************************************)
OSome(v) == [value |-> v, valid |-> TRUE]

ONone == [value |-> Zero, valid |-> FALSE]

MustGet(x) == IF ~x.valid THEN Panic("called MustGet on None") ELSE Ok(x.value)

(***************************************************************************)
(* Inputs.                                                                 *)
(***************************************************************************)
\* The Results a caller can build with ROk and RErr.
Results == {ROk(v) : v \in Vals} \cup {RErr(e) : e \in Errs}
\* Callbacks of type func(T) Result[T]: the constant ones, one that succeeds
\* with another value, and one that fails on some values only.
FnsTR ==
    {[v \in Vals |-> x] : x \in Results}
        \cup {[v \in Vals |-> ROk((v + 1) % (MaxVal + 1))],
              [v \in Vals |-> IF v = Zero THEN RErr("e1") ELSE ROk(v)]}

(***************************************************************************)
(* Calls on the Result and the Optional the caller holds.                  *)
(***************************************************************************)
NoCall == [op |-> "none"]

CallROk ==
    \E v \in Vals :
        /\ r' = ROk(v)
        /\ last' = [op |-> "ROk", v |-> v, ret |-> ROk(v)]
        /\ UNCHANGED <<o, errors, hist, call, mem, procs>>

CallRErr ==
    \E e \in ErrArgs :
        /\ r' = RErr(e)
        /\ last' = [op |-> "RErr", e |-> e, ret |-> RErr(e)]
        /\ UNCHANGED <<o, errors, hist, call, mem, procs>>

\* Try(fn): fn returns a value together with an error, or with nil.
CallTry ==
    \E v \in Vals, e \in ErrArgs :
        /\ r' = Try([data |-> v, err |-> e])
        /\ last' = [op |-> "Try", v |-> v, e |-> e, ret |-> r']
        /\ UNCHANGED <<o, errors, hist, call, mem, procs>>

CallUnwrap ==
    /\ last' = [op |-> "Unwrap", r |-> r, out |-> Unwrap(r)]
    /\ UNCHANGED <<r, o, errors, hist, call, mem, procs>>

CallUnwrapErr ==
    /\ last' = [op |-> "UnwrapErr", r |-> r, out |-> UnwrapErr(r)]
    /\ UNCHANGED <<r, o, errors, hist, call, mem, procs>>

CallAndThen ==
    \E fn \in FnsTR :
        LET res == AndThen(r, fn)
        IN  /\ r' = res.ret
            /\ last' = [op |-> "AndThen", r |-> r, fn |-> fn,
                        ret |-> res.ret, calls |-> res.calls]
            /\ UNCHANGED <<o, errors, hist, call, mem, procs>>

CallCollect ==
    \E results \in SeqsUpTo(Results, MaxLen) :
        LET res == Collect(results)
        IN  /\ last' = [op |-> "Collect", results |-> results,
                        ret |-> res.ret, inspected |-> res.inspected]
            /\ UNCHANGED <<r, o, errors, hist, call, mem, procs>>

CallOSome ==
    \E v \in Vals :
        /\ o' = OSome(v)
        /\ last' = [op |-> "OSome", v |-> v]
        /\ UNCHANGED <<r, errors, hist, call, mem, procs>>

CallONone ==
    /\ o' = ONone
    /\ last' = [op |-> "ONone"]
    /\ UNCHANGED <<r, errors, hist, call, mem, procs>>

CallMustGet ==
    /\ last' = [op |-> "MustGet", o |-> o, out |-> MustGet(o)]
    /\ UNCHANGED <<r, o, errors, hist, call, mem, procs>>

InitResult ==
    /\ r = ROk(Zero)
    /\ o = ONone
    /\ last = NoCall
    /\ errors = <<>>
    /\ hist = <<>>
    /\ call = NoCall
    /\ mem = <<>>
    /\ procs = <<>>

NextResult ==
    \/ CallROk
    \/ CallRErr
    \/ CallTry
    \/ CallUnwrap
    \/ CallUnwrapErr
    \/ CallAndThen
    \/ CallOSome
    \/ CallONone
    \/ CallMustGet

SpecResult == InitResult /\ [][NextResult]_vars

\* Collect on its own: its input is a whole slice of Results.
SpecCollect == InitResult /\ [][CallCollect]_vars

(***************************************************************************)
(* Properties of Result and Optional.                                      *)
(***************************************************************************)
\* C1: on a failure r, r.AndThen(f) does not invoke f and returns a failure
\* carrying r's error; on a success r holding v it invokes f exactly once,
\* with v, and returns f(v).
C1_AndThenShortCircuits ==
    last.op = "AndThen" =>
        /\ IsErr(last.r) =>
              /\ last.calls = <<>>
              /\ IsErr(last.ret)
              /\ last.ret.err = last.r.err
        /\ IsOk(last.r) =>
              /\ last.calls = <<last.r.data>>
              /\ last.ret = last.fn[last.r.data]

\* A failure went through AndThen with a callback that would have succeeded.
C1_Witness ==
    /\ last.op = "AndThen"
    /\ IsErr(last.r)
    /\ \A v \in Vals : IsOk(last.fn[v])
    /\ IsErr(r)

FailingIndexes(results) == {i \in 1 .. Len(results) : IsErr(results[i])}

\* C2: Collect returns a failure carrying the error of the lowest-index
\* failing element, having read no element after it; with no failing
\* element it returns a success wrapping all the values, in order and with
\* the input's length.
C2_CollectFirstErrorOrAll ==
    last.op = "Collect" =>
        LET bad == FailingIndexes(last.results)
        IN  IF bad # {}
            THEN LET k == CHOOSE i \in bad : \A j \in bad : i <= j
                 IN  /\ IsErr(last.ret)
                     /\ last.ret.err = last.results[k].err
                     /\ last.inspected = k
            ELSE /\ IsOk(last.ret)
                 /\ Len(last.ret.data.elems) = Len(last.results)
                 /\ \A i \in 1 .. Len(last.results) :
                        last.ret.data.elems[i] = last.results[i].data

\* Collect met a first failure that is followed by a different failure.
C2_Witness ==
    /\ last.op = "Collect"
    /\ Len(last.results) = 3
    /\ FailingIndexes(last.results) = {2, 3}
    /\ last.results[2].err # last.results[3].err
    /\ last.ret.err = last.results[2].err

\* C3: RErr(e) is a failure for every error argument e, ROk(v) is a success
\* for every v, and no Result is both or neither.
C3_FactoriesFixState ==
    /\ last.op = "RErr" => IsErr(last.ret) /\ ~IsOk(last.ret)
    /\ last.op = "ROk" => IsOk(last.ret) /\ ~IsErr(last.ret)
    /\ IsOk(r) # IsErr(r)

\* C4: Unwrap on a failure panics with the stored error, UnwrapErr on a
\* success panics, MustGet on an absent Optional panics; in the matching
\* state each returns the stored value (or error) and does not panic.
C4_WrongStateAccessorsAbort ==
    /\ last.op = "Unwrap" =>
          IF IsErr(last.r)
          THEN last.out.panic /\ last.out.val = last.r.err
          ELSE ~last.out.panic /\ last.out.val = last.r.data
    /\ last.op = "UnwrapErr" =>
          IF IsOk(last.r)
          THEN last.out.panic
          ELSE ~last.out.panic /\ last.out.val = last.r.err
    /\ last.op = "MustGet" =>
          IF ~last.o.valid
          THEN last.out.panic
          ELSE ~last.out.panic /\ last.out.val = last.o.value

\* Unwrap was called on a failure and panicked with its error.
C4_Witness ==
    /\ last.op = "Unwrap"
    /\ IsErr(last.r)
    /\ last.out = Panic(last.r.err)

(***************************************************************************)
(* MultiError (src/unnamed/part_002).  errors is the field m.errors of     *)
(* the one instance m the model follows; Self is that instance as an error *)
(* value (the pointer m).                                                  *)
(***************************************************************************)
Self == "m"

NewMultiError == <<>>

Add_Overwrites(errs, err) == IF err # NilErr THEN <<err>> ELSE errs
Add_RecordsNil(errs, err) == Append(errs, err)
Add(errs, err) == IF err # NilErr THEN Append(errs, err) ELSE errs

RECURSIVE AddAll(_, _)
AddAll(errs, args) ==
    IF args = <<>> THEN errs
    ELSE AddAll(IF Head(args) # NilErr THEN Append(errs, Head(args)) ELSE errs,
                Tail(args))

Errors(errs) == errs

HasErrors_MoreThanOne(errs) == Len(errs) > 1
HasErrors(errs) == Len(errs) > 0

MultiErrorLen(errs) == Len(errs)

\* The loop of Error() over m.errors from index i (0-based), msg so far.
RECURSIVE ErrorLoop(_, _, _)
ErrorLoop(errs, i, msg) ==
    IF i >= Len(errs) THEN msg
    ELSE ErrorLoop(errs, i + 1,
                   (IF i > 0 THEN msg \o "; " ELSE msg) \o Msg(errs[i + 1]))

Error_NoCount(errs) == ErrorLoop(errs, 0, "")
Error(errs) ==
    IF Len(errs) = 0 THEN ""
    ELSE IF Len(errs) = 1 THEN Msg(errs[1])
    ELSE ErrorLoop(errs, 0, ToString(Len(errs)) \o " errors: ")

ErrorOrNil(errs) == IF ~HasErrors(errs) THEN NilErr ELSE Self

MultiErrorFirst(errs) == IF Len(errs) = 0 THEN NilErr ELSE errs[1]

MultiErrorUnwrap_FirstOnly(errs) == IF Len(errs) = 0 THEN <<>> ELSE <<errs[1]>>
MultiErrorUnwrap(errs) == errs

\* errors.Is(err, target) for an err that is not the MultiError: err itself,
\* or an error down its Unwrap() chain, is target.
RECURSIVE IsInChain(_, _)
IsInChain(err, target) ==
    \/ err = target
    \/ Wraps(err) # NilErr /\ IsInChain(Wraps(err), target)

\* errors.Is(m, target): m is target, or errors.Is holds of an element of
\* m.Unwrap().
ErrorsIs(errs, target) ==
    \/ Self = target
    \/ \E i \in 1 .. Len(MultiErrorUnwrap(errs)) :
           IsInChain(MultiErrorUnwrap(errs)[i], target)

(***************************************************************************)
(* Calls on the MultiError.                                                *)
(***************************************************************************)
CallAdd ==
    \E err \in ErrArgs :
        /\ Len(hist) < MaxArgs
        /\ errors' = Add(errors, err)
        /\ hist' = Append(hist, err)
        /\ last' = [op |-> "Add", err |-> err]
        /\ UNCHANGED <<r, o, call, mem, procs>>

CallAddAll ==
    \E args \in SeqsUpTo(ErrArgs, MaxLen) :
        /\ Len(hist) + Len(args) <= MaxArgs
        /\ errors' = AddAll(errors, args)
        /\ hist' = hist \o args
        /\ last' = [op |-> "AddAll", args |-> args]
        /\ UNCHANGED <<r, o, call, mem, procs>>

\* The read-only methods: Errors, HasErrors, Len, Error, ErrorOrNil, First.
CallQuery ==
    /\ last' = [op |-> "Query", errors |-> Errors(errors),
                hasErrors |-> HasErrors(errors), len |-> MultiErrorLen(errors),
                error |-> Error(errors), errorOrNil |-> ErrorOrNil(errors),
                first |-> MultiErrorFirst(errors),
                unwrap |-> MultiErrorUnwrap(errors)]
    /\ UNCHANGED <<r, o, errors, hist, call, mem, procs>>

CallErrorsIs ==
    \E target \in Errs :
        /\ last' = [op |-> "errors.Is", target |-> target,
                    ret |-> ErrorsIs(errors, target)]
        /\ UNCHANGED <<r, o, errors, hist, call, mem, procs>>

InitMultiError ==
    /\ r = ROk(Zero)
    /\ o = ONone
    /\ last = NoCall
    /\ errors = NewMultiError
    /\ hist = <<>>
    /\ call = NoCall
    /\ mem = <<>>
    /\ procs = <<>>

NextMultiError ==
    \/ CallAdd
    \/ CallAddAll
    \/ CallQuery
    \/ CallErrorsIs

SpecMultiError == InitMultiError /\ [][NextMultiError]_vars

(***************************************************************************)
(* Properties of MultiError.                                               *)
(***************************************************************************)
\* The non-nil arguments handed to Add / AddAll so far, in call order.
NonNilArgs == SelectSeq(hist, LAMBDA e : e # NilErr)

IsPrefix(s, t) == Len(s) <= Len(t) /\ \A i \in 1 .. Len(s) : s[i] = t[i]

C6_RecordsNonNilInOrder ==
    /\ Errors(errors) = NonNilArgs
    /\ \A i \in 1 .. Len(Errors(errors)) : Errors(errors)[i] # NilErr
    /\ MultiErrorLen(errors) = Cardinality({i \in 1 .. Len(hist) : hist[i] # NilErr})
    /\ MultiErrorFirst(errors) = (IF NonNilArgs = <<>> THEN NilErr ELSE NonNilArgs[1])

\* C6: after any sequence of Add and AddAll calls, Errors() is exactly the
\* non-nil arguments in call order, nil is never recorded, Len() is their
\* number, First() is the earliest of them or nil, and no call removes or
\* reorders an earlier entry.
C6_AppendOnly ==
    /\ []C6_RecordsNonNilInOrder
    /\ [][IsPrefix(errors, errors')]_vars

\* AddAll was handed nil among its arguments and errors are recorded from
\* more than one call.
C6_Witness ==
    /\ last.op = "AddAll"
    /\ \E i \in 1 .. Len(last.args) : last.args[i] = NilErr
    /\ Len(errors) >= 2
    /\ Len(hist) > Len(last.args) + 1
    /\ hist[1] = NilErr

\* C7: ErrorOrNil() is nil exactly when no non-nil error has been recorded,
\* and is the MultiError itself otherwise; HasErrors() is true exactly when
\* ErrorOrNil() is not nil.
C7_ErrorOrNil ==
    last.op = "Query" =>
        /\ last.errorOrNil = NilErr <=> NonNilArgs = <<>>
        /\ last.errorOrNil # NilErr => last.errorOrNil = Self
        /\ last.hasErrors <=> last.errorOrNil # NilErr

\* ErrorOrNil() returned the MultiError with exactly one error recorded,
\* after a nil argument was ignored.
C7_Witness ==
    /\ last.op = "Query"
    /\ last.errorOrNil = Self
    /\ Len(NonNilArgs) = 1
    /\ Len(hist) > 1

RECURSIVE JoinMsgs(_)
JoinMsgs(es) ==
    IF Len(es) = 1 THEN Msg(es[1]) ELSE Msg(Head(es)) \o "; " \o JoinMsgs(Tail(es))

\* C8: Error() is "" with no error recorded, the message of the error with
\* one, and "<n> errors: " followed by the messages joined with "; " in
\* insertion order with n >= 2.
C8_ErrorRendering ==
    last.op = "Query" =>
        LET n == Len(NonNilArgs)
        IN  last.error =
                IF n = 0 THEN ""
                ELSE IF n = 1 THEN Msg(NonNilArgs[1])
                ELSE ToString(n) \o " errors: " \o JoinMsgs(NonNilArgs)

\* Error() rendered three recorded errors.
C8_Witness ==
    /\ last.op = "Query"
    /\ NonNilArgs = <<"e1", "e2", "w1">>
    /\ last.error = "3 errors: e1; e2; ctx: e1"

\* The errors that e wraps, directly or not.
RECURSIVE WrappedBy(_)
WrappedBy(e) ==
    IF Wraps(e) = NilErr THEN {} ELSE {Wraps(e)} \cup WrappedBy(Wraps(e))

Recorded == {NonNilArgs[i] : i \in 1 .. Len(NonNilArgs)}

Map(items, fn) ==
    IF items.isNil THEN Ok(NilSlice)
    ELSE Ok(Slice([i \in 1 .. Len(items.elems) |-> fn[items.elems[i]]]))

First(items) ==
    IF Len(items.elems) = 0 THEN Ok(<<Zero, FALSE>>)
    ELSE LET x == IndexAt(items.elems, 0)
         IN  IF x.panic THEN x ELSE Ok(<<x.val, TRUE>>)

Last_NoEmptyCheck(items) ==
    LET x == IndexAt(items.elems, Len(items.elems) - 1)
    IN  IF x.panic THEN x ELSE Ok(<<x.val, TRUE>>)
Last(items) ==
    IF Len(items.elems) = 0 THEN Ok(<<Zero, FALSE>>)
    ELSE LET x == IndexAt(items.elems, Len(items.elems) - 1)
         IN  IF x.panic THEN x ELSE Ok(<<x.val, TRUE>>)

\* Reverse's loop: result[i] = items[j] for i = 0 .. len-1, j = len-1 .. 0.
RECURSIVE ReverseLoop(_, _, _, _)
ReverseLoop(elems, i, j, result) ==
    IF ~(i < Len(elems)) THEN Ok(Slice(result))
    ELSE LET x == IndexAt(elems, j)
         IN  IF x.panic THEN x
             ELSE ReverseLoop(elems, i + 1, j - 1, Append(result, x.val))

Reverse(items) ==
    IF items.isNil THEN Ok(NilSlice)
    ELSE ReverseLoop(items.elems, 0, Len(items.elems) - 1, <<>>)

\* Chunk's loop: i is the start of the next chunk.  items[i:end] panics when
\* its bounds are not 0 <= i <= end <= cap(items).
RECURSIVE ChunkLoop(_, _, _, _)
ChunkLoop(elems, size, i, result) ==
    IF ~(i < Len(elems)) THEN Ok(Slice(result))
    ELSE LET e0 == Wrap(i + size)
             end == IF e0 > Len(elems) THEN Len(elems) ELSE e0
         IN  IF i < 0 \/ end < i
             THEN Panic("slice bounds out of range")
             ELSE ChunkLoop(elems, size, Wrap(i + size),
                            Append(result, Slice(SubSeq(elems, i + 1, end))))

Chunk_EmptyForInvalid(items, size) ==
    IF size <= 0 \/ Len(items.elems) = 0 THEN Ok(Slice(<<>>))
    ELSE ChunkLoop(items.elems, size, 0, <<>>)
Chunk(items, size) ==
    IF size <= 0 \/ Len(items.elems) = 0 THEN Ok(NilSlice)
    ELSE LET capacity == Quo(Wrap(Wrap(Len(items.elems) + size) - 1), size)
         IN  IF capacity < 0 THEN Panic("makeslice: cap out of range")
             ELSE ChunkLoop(items.elems, size, 0, <<>>)

Filter_NilWhenEmpty(items, fn) ==
    LET result == SelectSeq(items.elems, LAMBDA item : fn[item])
    IN  IF result = <<>> THEN Ok(NilSlice) ELSE Ok(Slice(result))
Filter(items, fn) ==
    IF items.isNil THEN Ok(NilSlice)
    ELSE Ok(Slice(SelectSeq(items.elems, LAMBDA item : fn[item])))

\* The loop of Unique: appends the items not seen yet.
RECURSIVE UniqueLoop(_, _, _)
UniqueLoop(items, seen, result) ==
    IF items = <<>> THEN result
    ELSE IF Head(items) \notin seen
    THEN UniqueLoop(Tail(items), seen \cup {Head(items)},
                    Append(result, Head(items)))
    ELSE UniqueLoop(Tail(items), seen, result)

Unique_KeepsLast(items) ==
    IF items.isNil THEN Ok(NilSlice)
    ELSE LET reversed == Reverse(items).val.elems
         IN  Reverse(Slice(UniqueLoop(reversed, {}, <<>>)))
Unique(items) ==
    IF items.isNil THEN Ok(NilSlice)
    ELSE Ok(Slice(UniqueLoop(items.elems, {}, <<>>)))

\* The loop of GroupBy: result maps each key met so far to its items;
\* result[key] of a key not met yet is the nil slice append starts from.
RECURSIVE GroupByLoop(_, _, _)
GroupByLoop(items, fn, result) ==
    IF items = <<>> THEN result
    ELSE LET item == Head(items)
             key == fn[item]
             group == IF key \in DOMAIN result THEN result[key] ELSE <<>>
         IN  GroupByLoop(Tail(items), fn,
                         [k \in DOMAIN result \cup {key} |->
                             IF k = key THEN Append(group, item)
                             ELSE result[k]])

GroupBy_ReversedGroups(items, fn) ==
    Ok([k \in {fn[items.elems[i]] : i \in 1 .. Len(items.elems)} |->
           LET group == SelectSeq(items.elems, LAMBDA item : fn[item] = k)
           IN  [i \in 1 .. Len(group) |-> group[Len(group) + 1 - i]]])
GroupBy(items, fn) == Ok(GroupByLoop(items.elems, fn, <<>>))

\* The loop of Flatten: appends the elements of every inner slice.
RECURSIVE FlattenLoop(_, _)
FlattenLoop(items, result) ==
    IF items = <<>> THEN result
    ELSE FlattenLoop(Tail(items), result \o Head(items).elems)

Flatten(items) ==
    IF items.isNil THEN Ok(NilSlice)
    ELSE Ok(Slice(FlattenLoop(items.elems, <<>>)))

IntMin(a, b) == IF a < b THEN a ELSE b

Zip(a, b) ==
    LET length == IntMin(Len(a.elems), Len(b.elems))
    IN  IF \E i \in 0 .. length - 1 :
               IndexAt(a.elems, i).panic \/ IndexAt(b.elems, i).panic
        THEN Panic("index out of range")
        ELSE Ok(Slice([i \in 1 .. length |->
                          [First |-> IndexAt(a.elems, i - 1).val,
                           Second |-> IndexAt(b.elems, i - 1).val]]))

(***************************************************************************)
(* Numeric reducers over Go's int (src/unnamed/part_003).                  *)
(***************************************************************************)
RECURSIVE SumLoop(_, _)
SumLoop(items, sum) ==
    IF items = <<>> THEN sum ELSE SumLoop(Tail(items), Wrap(sum + Head(items)))

Sum(items) == Ok(SumLoop(items, 0))

RECURSIVE MaxLoop(_, _)
MaxLoop(items, max) ==
    IF items = <<>> THEN max
    ELSE MaxLoop(Tail(items), IF Head(items) > max THEN Head(items) ELSE max)

Max(items) ==
    IF Len(items) = 0 THEN Panic("Max requires at least one argument")
    ELSE Ok(MaxLoop(Tail(items), items[1]))

MaxSlice(items) ==
    IF Len(items) = 0 THEN Ok(<<0, FALSE>>)
    ELSE Ok(<<MaxLoop(Tail(items), items[1]), TRUE>>)

RECURSIVE MinLoop(_, _)
MinLoop(items, min) ==
    IF items = <<>> THEN min
    ELSE MinLoop(Tail(items), IF Head(items) < min THEN Head(items) ELSE min)

Min(items) ==
    IF Len(items) = 0 THEN Panic("Min requires at least one argument")
    ELSE Ok(MinLoop(Tail(items), items[1]))

MinSlice(items) ==
    IF Len(items) = 0 THEN Ok(<<0, FALSE>>)
    ELSE Ok(<<MinLoop(Tail(items), items[1]), TRUE>>)

Clamp(value, minVal, maxVal) ==
    IF value < minVal THEN Ok(minVal)
    ELSE IF value > maxVal THEN Ok(maxVal)
    ELSE Ok(value)

Range(start, end) ==
    IF end <= start THEN Ok(Slice(<<>>))
    ELSE LET n == Wrap(end - start)
         IN  IF n < 0 THEN Panic("makeslice: len out of range")
             ELSE Ok(Slice([i \in 1 .. n |-> Wrap(start + (i - 1))]))

\* RangeStep's loops.  The index i takes at most 2^IntBits values, so a loop
\* that has appended more elements than that never ends.
RECURSIVE RangeStepLoop(_, _, _, _)
RangeStepLoop(i, end, step, result) ==
    IF Len(result) > 2 ^ IntBits THEN Hang
    ELSE IF (step > 0 /\ i < end) \/ (step < 0 /\ i > end)
         THEN RangeStepLoop(Wrap(i + step), end, step, Append(result, i))
         ELSE Ok(Slice(result))

RangeStep(start, end, step) ==
    IF step = 0 \/ (step > 0 /\ end <= start) \/ (step < 0 /\ end >= start)
    THEN Ok(Slice(<<>>))
    ELSE LET size0 == Quo(Wrap(end - start), step)
             size == IF size0 < 0 THEN Wrap(-size0) ELSE size0
         IN  IF size < 0 THEN Panic("makeslice: cap out of range")
             ELSE RangeStepLoop(start, end, step, <<>>)

(***************************************************************************)
(* Calls of the pure functions: the call is drawn at the start, and the    *)
(* action of its function makes it.                                        *)
(***************************************************************************)
\* Slices of T, nil included.
SliceInputs == {NilSlice} \cup {Slice(s) : s \in SeqsUpTo(Vals, MaxLen)}
\* Callbacks of type func(T) T.
FnsTT == {[v \in Vals |-> v], [v \in Vals |-> (v + 1) % (MaxVal + 1)],
          [v \in Vals |-> Zero]}
\* Predicates of type func(T) bool.
FnsTB == [Vals -> BOOLEAN]
\* Key functions of type func(T) K: those of FnsTT and one that is neither
\* constant nor one-to-one.
FnsTK == FnsTT \cup {[v \in Vals |-> v % 2]}
\* Slices of slices of T: the outer slice and every inner one may be nil.
SliceOfSliceInputs ==
    {NilSlice} \cup
        {Slice(s) :
            s \in SeqsUpTo({NilSlice} \cup
                               {Slice(t) : t \in SeqsUpTo(Vals, MaxLen - 1)}, 2)}
\* Numbers handed to the reducers: the extremes of int and values around 0.
NumVals == {MinInt, -1, 0, 1, MaxInt}
NumLists == SeqsUpTo(NumVals, MaxLen)
Optionals == {ONone} \cup {OSome(v) : v \in Vals}

Calls ==
    [op : {"Unwrap", "UnwrapErr"}, r : Results]
        \cup [op : {"MustGet"}, o : Optionals]
        \cup [op : {"AndThen"}, r : Results, fn : FnsTR]
        \cup [op : {"Collect"}, results : SeqsUpTo(Results, MaxLen - 1)]
        \cup [op : {"Map"}, items : SliceInputs, fn : FnsTT]
        \cup [op : {"First", "Last", "Reverse"}, items : SliceInputs]
        \cup [op : {"Filter"}, items : SliceInputs, fn : FnsTB]
        \cup [op : {"Unique"}, items : SliceInputs]
        \cup [op : {"GroupBy"}, items : SliceInputs, fn : FnsTK]
        \cup [op : {"Flatten"}, items : SliceOfSliceInputs]
        \cup [op : {"Chunk"}, items : SliceInputs, size : Ints]
        \cup [op : {"Zip"}, a : SliceInputs, b : SliceInputs]
        \cup [op : {"Sum", "Max", "Min", "MaxSlice", "MinSlice"}, items : NumLists]
        \cup [op : {"Clamp"}, value : NumVals, minVal : NumVals, maxVal : NumVals]
        \cup [op : {"Range"}, start : Ints, end : Ints]
        \cup [op : {"RangeStep"}, start : Ints, end : Ints, step : Ints]
        \cup [op : {"Error", "MultiError.First"}, errs : SeqsUpTo(Errs, MaxLen)]

\* The call is made: last records it with its outcome.
Return(out) ==
    /\ last = NoCall
    /\ last' = [call |-> call, out |-> out]
    /\ UNCHANGED <<r, o, errors, hist, call, mem, procs>>

DoUnwrap == call.op = "Unwrap" /\ Return(Unwrap(call.r))
DoUnwrapErr == call.op = "UnwrapErr" /\ Return(UnwrapErr(call.r))
DoMustGet == call.op = "MustGet" /\ Return(MustGet(call.o))
DoAndThen == call.op = "AndThen" /\ Return(Ok(AndThen(call.r, call.fn).ret))
DoCollect == call.op = "Collect" /\ Return(Ok(Collect(call.results).ret))
DoMap == call.op = "Map" /\ Return(Map(call.items, call.fn))
DoFilter == call.op = "Filter" /\ Return(Filter(call.items, call.fn))
DoUnique == call.op = "Unique" /\ Return(Unique(call.items))
DoGroupBy == call.op = "GroupBy" /\ Return(GroupBy(call.items, call.fn))
DoFlatten == call.op = "Flatten" /\ Return(Flatten(call.items))
DoFirst == call.op = "First" /\ Return(First(call.items))
DoLast == call.op = "Last" /\ Return(Last(call.items))
DoReverse == call.op = "Reverse" /\ Return(Reverse(call.items))
DoChunk == call.op = "Chunk" /\ Return(Chunk(call.items, call.size))
DoZip == call.op = "Zip" /\ Return(Zip(call.a, call.b))
DoSum == call.op = "Sum" /\ Return(Sum(call.items))
DoMax == call.op = "Max" /\ Return(Max(call.items))
DoMin == call.op = "Min" /\ Return(Min(call.items))
DoMaxSlice == call.op = "MaxSlice" /\ Return(MaxSlice(call.items))
DoMinSlice == call.op = "MinSlice" /\ Return(MinSlice(call.items))
DoClamp == call.op = "Clamp" /\ Return(Clamp(call.value, call.minVal, call.maxVal))
DoRange == call.op = "Range" /\ Return(Range(call.start, call.end))
DoRangeStep == call.op = "RangeStep" /\ Return(RangeStep(call.start, call.end, call.step))
DoError == call.op = "Error" /\ Return(Ok(Error(call.errs)))
DoMultiErrorFirst == call.op = "MultiError.First" /\ Return(Ok(MultiErrorFirst(call.errs)))

InitCalls ==
    /\ r = ROk(Zero)
    /\ o = ONone
    /\ last = NoCall
    /\ errors = NewMultiError
    /\ hist = <<>>
    /\ call \in Calls
    /\ mem = <<>>
    /\ procs = <<>>

NextCalls ==
    \/ DoUnwrap
    \/ DoUnwrapErr
    \/ DoMustGet
    \/ DoAndThen
    \/ DoCollect
    \/ DoMap
    \/ DoFilter
    \/ DoUnique
    \/ DoGroupBy
    \/ DoFlatten
    \/ DoFirst
    \/ DoLast
    \/ DoReverse
    \/ DoChunk
    \/ DoZip
    \/ DoSum
    \/ DoMax
    \/ DoMin
    \/ DoMaxSlice
    \/ DoMinSlice
    \/ DoClamp
    \/ DoRange
    \/ DoRangeStep
    \/ DoError
    \/ DoMultiErrorFirst

SpecCalls == InitCalls /\ [][NextCalls]_vars

(***************************************************************************)
(* The caller chains constructors and combinators of result.go and         *)
(* optional.go on the Result r and the Optional o it holds: a combinator   *)
(* that returns a Result replaces r, one that returns an Optional replaces *)
(* o.  last.calls lists the invocations of the callbacks of the call, in   *)
(* order; a func() callback is modelled by the value it returns.           *)
(***************************************************************************)
\* Callbacks of type func(error) error: the constant ones (nil included) and
\* the identity.
FnsEE == {[e \in Errs |-> x] : x \in ErrArgs} \cup {[e \in Errs |-> e]}
\* Callbacks of type func(error) Result[T] and func(error) R.
FnsER == {[e \in Errs |-> x] : x \in Results}
FnsEV == {[e \in Errs |-> v] : v \in Vals}
\* Callbacks of type func(T) Optional[T].
FnsTO == {[v \in Vals |-> x] : x \in {ONone, OSome(Zero)}}
             \cup {[v \in Vals |-> OSome(v)]}
\* The Result[Result[T]] values a caller can build: ROk(r) and RErr(e).
NestedResults == {ROk(r)} \cup {[data |-> ROk(Zero), err |-> e] : e \in Errs}

Invoked(name, arg) == [fn |-> name, arg |-> arg]
InvokedThunk(name) == [fn |-> name]

\* The call op(args) on r or o returned ret after the invocations calls.
Called(op, args, ret, calls) ==
    /\ last' = [op |-> op, r |-> r, o |-> o, args |-> args,
                ret |-> ret, calls |-> calls]
    /\ UNCHANGED <<errors, hist, call, mem, procs>>

CallUnwrapOrElse ==
    \E fn \in Vals :
        /\ IF r.err # NilErr
           THEN Called("UnwrapOrElse", <<fn>>, fn, <<InvokedThunk("fn")>>)
           ELSE Called("UnwrapOrElse", <<fn>>, r.data, <<>>)
        /\ UNCHANGED <<r, o>>

CallResultGet ==
    /\ Called("Get", <<>>, <<r.data, r.err = NilErr>>, <<>>)
    /\ UNCHANGED <<r, o>>

CallGetWithError ==
    /\ Called("GetWithError", <<>>, <<r.data, r.err>>, <<>>)
    /\ UNCHANGED <<r, o>>

CallResultMap ==
    \E fn \in FnsTT :
        /\ r' = IF r.err # NilErr THEN r ELSE ROk(fn[r.data])
        /\ Called("Map", <<fn>>, r',
                  IF r.err # NilErr THEN <<>> ELSE <<Invoked("fn", r.data)>>)
        /\ UNCHANGED o

CallMapTo ==
    \E fn \in FnsTT :
        /\ r' = IF r.err # NilErr THEN RErr(r.err) ELSE ROk(fn[r.data])
        /\ Called("MapTo", <<fn>>, r',
                  IF r.err # NilErr THEN <<>> ELSE <<Invoked("fn", r.data)>>)
        /\ UNCHANGED o

CallMapErr ==
    \E fn \in FnsEE :
        /\ r' = IF r.err = NilErr THEN r ELSE RErr(fn[r.err])
        /\ Called("MapErr", <<fn>>, r',
                  IF r.err = NilErr THEN <<>> ELSE <<Invoked("fn", r.err)>>)
        /\ UNCHANGED o

CallAndThenTo ==
    \E fn \in FnsTR :
        /\ r' = IF r.err # NilErr THEN RErr(r.err) ELSE fn[r.data]
        /\ Called("AndThenTo", <<fn>>, r',
                  IF r.err # NilErr THEN <<>> ELSE <<Invoked("fn", r.data)>>)
        /\ UNCHANGED o

CallResultOrElse ==
    \E fn \in FnsER :
        /\ r' = IF r.err = NilErr THEN r ELSE fn[r.err]
        /\ Called("OrElse", <<fn>>, r',
                  IF r.err = NilErr THEN <<>> ELSE <<Invoked("fn", r.err)>>)
        /\ UNCHANGED o

\* fn returns nothing: only its invocation is recorded.
CallResultInspect ==
    /\ Called("Inspect", <<>>, r,
              IF r.err = NilErr THEN <<Invoked("fn", r.data)>> ELSE <<>>)
    /\ UNCHANGED <<r, o>>

CallInspectErr ==
    /\ Called("InspectErr", <<>>, r,
              IF r.err # NilErr THEN <<Invoked("fn", r.err)>> ELSE <<>>)
    /\ UNCHANGED <<r, o>>

CallMatch_BothBranches ==
    \E okFn \in FnsTT, errFn \in FnsEV :
        /\ Called("Match", <<okFn, errFn>>,
                  IF r.err # NilErr THEN errFn[r.err] ELSE okFn[r.data],
                  <<Invoked("okFn", r.data)>> \o
                      (IF r.err # NilErr THEN <<Invoked("errFn", r.err)>>
                       ELSE <<>>))
        /\ UNCHANGED <<r, o>>
CallMatch ==
    \E okFn \in FnsTT, errFn \in FnsEV :
        /\ IF r.err # NilErr
           THEN Called("Match", <<okFn, errFn>>, errFn[r.err],
                       <<Invoked("errFn", r.err)>>)
           ELSE Called("Match", <<okFn, errFn>>, okFn[r.data],
                       <<Invoked("okFn", r.data)>>)
        /\ UNCHANGED <<r, o>>

CallFlattenResult_OkOnly ==
    \E x \in NestedResults :
        /\ r' = IF x.err # NilErr \/ x.data.err # NilErr
                THEN RErr(x.err) ELSE x.data
        /\ Called("FlattenResult", <<x>>, r', <<>>)
        /\ UNCHANGED o
\* x is the Result[Result[T]] handed over: its data is a Result.
CallFlattenResult ==
    \E x \in NestedResults :
        /\ r' = IF x.err # NilErr THEN RErr(x.err) ELSE x.data
        /\ Called("FlattenResult", <<x>>, r', <<>>)
        /\ UNCHANGED o

CallOFromOk_KeepsValue ==
    \E v \in Vals, ok \in BOOLEAN :
        /\ o' = [value |-> v, valid |-> ok]
        /\ Called("OFromOk", <<v, ok>>, o', <<>>)
        /\ UNCHANGED r
CallOFromOk ==
    \E v \in Vals, ok \in BOOLEAN :
        /\ o' = IF ~ok THEN ONone ELSE OSome(v)
        /\ Called("OFromOk", <<v, ok>>, o', <<>>)
        /\ UNCHANGED r

CallOFromErr ==
    \E v \in Vals, err \in ErrArgs :
        /\ o' = IF err # NilErr THEN ONone ELSE OSome(v)
        /\ Called("OFromErr", <<v, err>>, o', <<>>)
        /\ UNCHANGED r

CallOptionalGet ==
    /\ Called("Optional.Get", <<>>, <<o.value, o.valid>>, <<>>)
    /\ UNCHANGED <<r, o>>

CallOrElseFn ==
    \E fn \in Vals :
        /\ IF ~o.valid
           THEN Called("OrElseFn", <<fn>>, fn, <<InvokedThunk("fn")>>)
           ELSE Called("OrElseFn", <<fn>>, o.value, <<>>)
        /\ UNCHANGED <<r, o>>

CallOptionalMap_OnNone ==
    \E fn \in FnsTT :
        /\ o' = OSome(fn[o.value])
        /\ Called("Optional.Map", <<fn>>, o', <<Invoked("fn", o.value)>>)
        /\ UNCHANGED r
CallOptionalMap ==
    \E fn \in FnsTT :
        /\ o' = IF ~o.valid THEN o ELSE OSome(fn[o.value])
        /\ Called("Optional.Map", <<fn>>, o',
                  IF ~o.valid THEN <<>> ELSE <<Invoked("fn", o.value)>>)
        /\ UNCHANGED r

CallFlatMap ==
    \E fn \in FnsTO :
        /\ o' = IF ~o.valid THEN o ELSE fn[o.value]
        /\ Called("FlatMap", <<fn>>, o',
                  IF ~o.valid THEN <<>> ELSE <<Invoked("fn", o.value)>>)
        /\ UNCHANGED r

\* fn(o.value) is evaluated only when o.valid holds (|| short-circuits).
CallOptionalFilter ==
    \E fn \in FnsTB :
        /\ o' = IF ~o.valid \/ ~fn[o.value] THEN ONone ELSE o
        /\ Called("Optional.Filter", <<fn>>, o',
                  IF ~o.valid THEN <<>> ELSE <<Invoked("fn", o.value)>>)
        /\ UNCHANGED r

CallOr ==
    \E alt \in Optionals :
        /\ o' = IF o.valid THEN o ELSE alt
        /\ Called("Or", <<alt>>, o', <<>>)
        /\ UNCHANGED r

CallOrFn ==
    \E fn \in Optionals :
        /\ o' = IF o.valid THEN o ELSE fn
        /\ Called("OrFn", <<fn>>, o',
                  IF o.valid THEN <<>> ELSE <<InvokedThunk("fn")>>)
        /\ UNCHANGED r

CallAnd ==
    \E other \in Optionals :
        /\ o' = IF ~o.valid THEN ONone ELSE other
        /\ Called("And", <<other>>, o', <<>>)
        /\ UNCHANGED r

CallXor_AsOr ==
    \E other \in Optionals :
        /\ o' = IF o.valid THEN o ELSE other
        /\ Called("Xor", <<other>>, o', <<>>)
        /\ UNCHANGED r
CallXor ==
    \E other \in Optionals :
        /\ o' = IF o.valid /\ ~other.valid THEN o
                ELSE IF ~o.valid /\ other.valid THEN other
                ELSE ONone
        /\ Called("Xor", <<other>>, o', <<>>)
        /\ UNCHANGED r

CallOptionalInspect ==
    /\ Called("Optional.Inspect", <<>>, o,
              IF o.valid THEN <<Invoked("fn", o.value)>> ELSE <<>>)
    /\ UNCHANGED <<r, o>>

CallOMatch ==
    \E someFn \in FnsTT, noneFn \in Vals :
        /\ IF o.valid
           THEN Called("OMatch", <<someFn, noneFn>>, someFn[o.value],
                       <<Invoked("someFn", o.value)>>)
           ELSE Called("OMatch", <<someFn, noneFn>>, noneFn,
                       <<InvokedThunk("noneFn")>>)
        /\ UNCHANGED <<r, o>>

CallToResult ==
    \E err \in ErrArgs :
        /\ r' = IF ~o.valid THEN RErr(err) ELSE ROk(o.value)
        /\ Called("ToResult", <<err>>, r', <<>>)
        /\ UNCHANGED o

NextContainers ==
    \/ CallROk
    \/ CallRErr
    \/ CallTry
    \/ CallAndThen
    \/ CallOSome
    \/ CallONone
    \/ CallUnwrapOrElse
    \/ CallResultGet
    \/ CallGetWithError
    \/ CallResultMap
    \/ CallMapTo
    \/ CallMapErr
    \/ CallAndThenTo
    \/ CallResultOrElse
    \/ CallResultInspect
    \/ CallInspectErr
    \/ CallMatch
    \/ CallFlattenResult
    \/ CallOFromOk
    \/ CallOFromErr
    \/ CallOptionalGet
    \/ CallOrElseFn
    \/ CallOptionalMap
    \/ CallFlatMap
    \/ CallOptionalFilter
    \/ CallOr
    \/ CallOrFn
    \/ CallAnd
    \/ CallXor
    \/ CallOptionalInspect
    \/ CallOMatch
    \/ CallToResult

SpecContainers == InitResult /\ [][NextContainers]_vars

(***************************************************************************)
(* Properties of the calls.                                                *)
(***************************************************************************)
Returned == last # NoCall
Aborted == Returned /\ (last.out.panic \/ last.out.hang)

\* The accessors that abort on the wrong state.
WrongStateAccessor(c) ==
    \/ c.op = "Unwrap" /\ IsErr(c.r)
    \/ c.op = "UnwrapErr" /\ IsOk(c.r)
    \/ c.op = "MustGet" /\ ~c.o.valid

\* Max and Min with no argument.
EmptyMaxMin(c) == c.op \in {"Max", "Min"} /\ c.items = <<>>

\* Whether the integers a call computes fit Go's int, in exact arithmetic:
\* len(items)+size-1 in Chunk; end-start in Range; end-start, the element
\* count and the last index start+k*step in RangeStep.
ChunkFits(n, size) == n + size - 1 <= MaxInt
RangeFits(start, end) == end - start <= MaxInt
RangeStepFits(start, end, step) ==
    LET d == end - start
        k == (Abs(d) + Abs(step) - 1) \div Abs(step)
    IN  /\ d \in Ints
        /\ Abs(d) \div Abs(step) <= MaxInt
        /\ start + k * step \in Ints

IntegerOverflow(c) ==
    \/ c.op = "Chunk" /\ ~ChunkFits(Len(c.items.elems), c.size)
    \/ c.op = "Range" /\ ~RangeFits(c.start, c.end)
    \/ c.op = "RangeStep" /\ c.step # 0 /\ ~RangeStepFits(c.start, c.end, c.step)

C10_ChunkNilForInvalid ==
    (/\ Returned
     /\ last.call.op = "Chunk"
     /\ (last.call.size <= 0 \/ Len(last.call.items.elems) = 0))
        => last.out = Ok(NilSlice)

\* Chunk returned nil for an empty-but-present slice and a valid size.
C10_Witness ==
    /\ Returned
    /\ last.call.op = "Chunk"
    /\ last.call.items = Slice(<<>>)
    /\ last.call.size > 0
    /\ last.out = Ok(NilSlice)

(***************************************************************************)
(* set.go: set operations on slices.                                       *)
(***************************************************************************)
\* The map[T]struct{} a loop fills with the elements of a slice.
SetOf(s) == {s[i] : i \in 1 .. Len(s)}

\* The loop of Intersect over a: result and seen so far.
RECURSIVE IntersectLoop(_, _, _, _)
IntersectLoop(items, set, result, seen) ==
    IF items = <<>> THEN result
    ELSE LET item == Head(items)
         IN  IF item \in set /\ item \notin seen
             THEN IntersectLoop(Tail(items), set, Append(result, item),
                                seen \cup {item})
             ELSE IntersectLoop(Tail(items), set, result, seen)

Intersect_KeepsDuplicates(a, b) ==
    Slice(SelectSeq(a.elems, LAMBDA x : x \in SetOf(b.elems)))
Intersect(a, b) ==
    IF Len(a.elems) = 0 \/ Len(b.elems) = 0 THEN Slice(<<>>)
    ELSE Slice(IntersectLoop(a.elems, SetOf(b.elems), <<>>, {}))

\* One loop of Union: appends the items not seen yet.  The capacity
\* len(a)+len(b) that Union hands to make is at most 2 * MaxLen here, below
\* MaxInt, so the allocation succeeds and only the loops are modelled.
RECURSIVE UnionLoop(_, _, _)
UnionLoop(items, result, seen) ==
    IF items = <<>> THEN [result |-> result, seen |-> seen]
    ELSE LET item == Head(items)
         IN  IF item \notin seen
             THEN UnionLoop(Tail(items), Append(result, item), seen \cup {item})
             ELSE UnionLoop(Tail(items), result, seen)

Union_BFirst(a, b) ==
    LET first == UnionLoop(b.elems, <<>>, {})
    IN  Slice(UnionLoop(a.elems, first.result, first.seen).result)
Union(a, b) ==
    LET first == UnionLoop(a.elems, <<>>, {})
    IN  Slice(UnionLoop(b.elems, first.result, first.seen).result)

\* The loop of Difference over a.
RECURSIVE DifferenceLoop(_, _, _)
DifferenceLoop(items, set, result) ==
    IF items = <<>> THEN result
    ELSE DifferenceLoop(Tail(items), set,
                        IF Head(items) \notin set
                        THEN Append(result, Head(items)) ELSE result)

Difference_Distinct(a, b) ==
    Slice(IntersectLoop(a.elems, SetOf(a.elems) \ SetOf(b.elems), <<>>, {}))
Difference(a, b) ==
    IF Len(a.elems) = 0 THEN Slice(<<>>)
    ELSE IF Len(b.elems) = 0 THEN Slice(<<>> \o a.elems)
    ELSE Slice(DifferenceLoop(a.elems, SetOf(b.elems), <<>>))

SymmetricDifference_Concat(a, b) ==
    Slice(Difference(a, b).elems \o Difference(b, a).elems)
SymmetricDifference(a, b) == Union(Difference(a, b), Difference(b, a))

\* The loop of IsSubset over a: FALSE at the first item not in set.
RECURSIVE SubsetLoop(_, _)
SubsetLoop(items, set) ==
    IF items = <<>> THEN TRUE
    ELSE IF Head(items) \notin set THEN FALSE
    ELSE SubsetLoop(Tail(items), set)

IsSubset_EmptyBFirst(a, b) ==
    IF Len(b.elems) = 0 THEN FALSE
    ELSE IF Len(a.elems) = 0 THEN TRUE
    ELSE SubsetLoop(a.elems, SetOf(b.elems))
IsSubset(a, b) ==
    IF Len(a.elems) = 0 THEN TRUE
    ELSE IF Len(b.elems) = 0 THEN FALSE
    ELSE SubsetLoop(a.elems, SetOf(b.elems))

IsSuperset(a, b) == IsSubset(b, a)

\* The loop of IsDisjoint over a: FALSE at the first item in set.
RECURSIVE DisjointLoop(_, _)
DisjointLoop(items, set) ==
    IF items = <<>> THEN TRUE
    ELSE IF Head(items) \in set THEN FALSE
    ELSE DisjointLoop(Tail(items), set)

IsDisjoint(a, b) ==
    IF Len(a.elems) = 0 \/ Len(b.elems) = 0 THEN TRUE
    ELSE DisjointLoop(a.elems, SetOf(b.elems))

Unzip_Swapped(pairs) ==
    <<Slice([i \in 1 .. Len(pairs.elems) |-> pairs.elems[i].Second]),
      Slice([i \in 1 .. Len(pairs.elems) |-> pairs.elems[i].First])>>
Unzip(pairs) ==
    <<Slice([i \in 1 .. Len(pairs.elems) |-> pairs.elems[i].First]),
      Slice([i \in 1 .. Len(pairs.elems) |-> pairs.elems[i].Second])>>

(***************************************************************************)
(* Calls of the set operations on two slices.                              *)
(***************************************************************************)
SetCalls ==
    [op : {"Intersect", "Union", "Difference", "SymmetricDifference",
           "IsSubset", "IsSuperset", "IsDisjoint", "Zip", "Unzip"},
     a : SliceInputs, b : SliceInputs]

DoIntersect == call.op = "Intersect" /\ Return(Ok(Intersect(call.a, call.b)))
DoUnion == call.op = "Union" /\ Return(Ok(Union(call.a, call.b)))
DoDifference == call.op = "Difference" /\ Return(Ok(Difference(call.a, call.b)))
DoSymmetricDifference ==
    call.op = "SymmetricDifference" /\ Return(Ok(SymmetricDifference(call.a, call.b)))
DoIsSubset == call.op = "IsSubset" /\ Return(Ok(IsSubset(call.a, call.b)))
DoIsSuperset == call.op = "IsSuperset" /\ Return(Ok(IsSuperset(call.a, call.b)))
DoIsDisjoint == call.op = "IsDisjoint" /\ Return(Ok(IsDisjoint(call.a, call.b)))
\* Unzip(Zip(a, b)): Unzip is handed the pairs Zip made of a and b.
DoUnzip == call.op = "Unzip" /\ Return(Ok(Unzip(Zip(call.a, call.b).val)))

InitSets ==
    /\ r = ROk(Zero)
    /\ o = ONone
    /\ last = NoCall
    /\ errors = NewMultiError
    /\ hist = <<>>
    /\ call \in SetCalls
    /\ mem = <<>>
    /\ procs = <<>>

NextSets ==
    \/ DoIntersect
    \/ DoUnion
    \/ DoDifference
    \/ DoSymmetricDifference
    \/ DoIsSubset
    \/ DoIsSuperset
    \/ DoIsDisjoint
    \/ DoZip
    \/ DoUnzip

SpecSets == InitSets /\ [][NextSets]_vars

(***************************************************************************)
(* Properties of Chunk and of the set operations.                          *)
(***************************************************************************)
\* The concatenation of the chunks, in order.
RECURSIVE ConcatChunks(_)
ConcatChunks(chunks) ==
    IF chunks = <<>> THEN <<>>
    ELSE Head(chunks).elems \o ConcatChunks(Tail(chunks))

\* ceil(n / size) for n >= 0 and size > 0, in unbounded arithmetic.
CeilDiv(n, size) == (n + size - 1) \div size

\* C11: for a non-empty slice and every size > 0, sizes above len(items) up
\* to the largest machine integer included, Chunk returns ceil(len/size)
\* consecutive chunks whose concatenation is items; every chunk but the last
\* has exactly size elements and the last has between 1 and size.
C11_ChunkPartitions ==
    (/\ Returned
     /\ last.call.op = "Chunk"
     /\ last.call.size > 0
     /\ Len(last.call.items.elems) > 0)
        => /\ ~last.out.panic
           /\ ~last.out.hang
           /\ LET chunks == last.out.val.elems
                  size == last.call.size
                  n == Len(last.call.items.elems)
              IN  /\ Len(chunks) = CeilDiv(n, size)
                  /\ ConcatChunks(chunks) = last.call.items.elems
                  /\ \A i \in 1 .. Len(chunks) - 1 : Len(chunks[i].elems) = size
                  /\ Len(chunks[Len(chunks)].elems) \in 1 .. size

\* s holds no element twice.
NoDuplicates(s) == \A i, j \in 1 .. Len(s) : i # j => s[i] # s[j]

\* The index of the first occurrence of x in src.
FirstIndex(src, x) ==
    CHOOSE i \in 1 .. Len(src) : src[i] = x /\ \A j \in 1 .. i - 1 : src[j] # x

\* res holds exactly the elements of S, each once, in the order of their
\* first occurrence in src (S is a subset of the elements of src).
DistinctInOrderOf(res, src, S) ==
    /\ SetOf(res) = S
    /\ NoDuplicates(res)
    /\ \A i, j \in 1 .. Len(res) :
           i < j => FirstIndex(src, res[i]) < FirstIndex(src, res[j])

\* The number of occurrences of x in s.
Occurrences(s, x) == Cardinality({i \in 1 .. Len(s) : s[i] = x})

\* res is a subsequence of src: an increasing choice of positions of src.
RECURSIVE IsSubsequence(_, _)
IsSubsequence(res, src) ==
    IF res = <<>> THEN TRUE
    ELSE IF src = <<>> THEN FALSE
    ELSE IF Head(res) = Head(src) THEN IsSubsequence(Tail(res), Tail(src))
    ELSE IsSubsequence(res, Tail(src))

\* C12: Intersect(a, b) returns the distinct elements of a that also occur
\* in b, each once, in the order of their first occurrence in a; the result
\* is empty when either input is empty.
C12_IntersectDistinctInOrder ==
    (Returned /\ last.call.op = "Intersect")
        => LET a == last.call.a.elems
               b == last.call.b.elems
               res == last.out.val.elems
           IN  /\ DistinctInOrderOf(res, a, SetOf(a) \cap SetOf(b))
               /\ (a = <<>> \/ b = <<>>) => res = <<>>

\* Intersect dropped the second occurrence of a common element and kept the
\* order of a, not of b.
C12_Witness ==
    /\ Returned
    /\ last.call.op = "Intersect"
    /\ last.call.a = Slice(<<2, 1, 2>>)
    /\ last.call.b = Slice(<<1, 2>>)
    /\ last.out.val = Slice(<<2, 1>>)

\* C13: Union(a, b) returns every element occurring in a or in b exactly
\* once, in first-occurrence order over a followed by b.
C13_UnionDistinctInOrder ==
    (Returned /\ last.call.op = "Union")
        => LET a == last.call.a.elems
               b == last.call.b.elems
           IN  DistinctInOrderOf(last.out.val.elems, a \o b,
                                 SetOf(a) \cup SetOf(b))

\* Union kept a's order, then the new elements of b, each once.
C13_Witness ==
    /\ Returned
    /\ last.call.op = "Union"
    /\ last.call.a = Slice(<<1, 1>>)
    /\ last.call.b = Slice(<<0, 1, 2>>)
    /\ last.out.val = Slice(<<1, 0, 2>>)

\* C14: Difference(a, b) returns the subsequence of a made of the elements
\* that do not occur in b, in a's order and without de-duplication: an
\* element occurring k times in a and not in b occurs k times in the result,
\* also when b is empty.
C14_DifferenceKeepsOccurrences ==
    (Returned /\ last.call.op = "Difference")
        => LET a == last.call.a.elems
               b == last.call.b.elems
               res == last.out.val.elems
           IN  /\ IsSubsequence(res, a)
               /\ \A x \in Vals :
                      Occurrences(res, x) =
                          IF x \in SetOf(b) THEN 0 ELSE Occurrences(a, x)

\* Difference kept both occurrences of an element that is not in b.
C14_Witness ==
    /\ Returned
    /\ last.call.op = "Difference"
    /\ last.call.a = Slice(<<1, 0, 1>>)
    /\ last.call.b = Slice(<<0>>)
    /\ last.out.val = Slice(<<1, 1>>)

\* C15: SymmetricDifference(a, b) equals Union(Difference(a, b),
\* Difference(b, a)): exactly the elements that occur in exactly one of a
\* and b, each once, those only in a first (in a's first-occurrence order)
\* and then those only in b.
C15_SymmetricDifferenceOnce ==
    (Returned /\ last.call.op = "SymmetricDifference")
        => LET a == last.call.a.elems
               b == last.call.b.elems
               res == last.out.val.elems
               onlyA == SetOf(a) \ SetOf(b)
               onlyB == SetOf(b) \ SetOf(a)
           IN  /\ DistinctInOrderOf(res, a \o b, onlyA \cup onlyB)
               /\ \A i, j \in 1 .. Len(res) :
                      (res[i] \in onlyA /\ res[j] \in onlyB) => i < j
               /\ last.out.val = Union(Difference(last.call.a, last.call.b),
                                       Difference(last.call.b, last.call.a))

\* SymmetricDifference listed an element twice in a and absent from b once,
\* before the element only in b.
C15_Witness ==
    /\ Returned
    /\ last.call.op = "SymmetricDifference"
    /\ last.call.a = Slice(<<1, 0, 1>>)
    /\ last.call.b = Slice(<<2, 0>>)
    /\ last.out.val = Slice(<<1, 2>>)

\* C16: IsSubset(a, b) is true iff every element of a occurs in b, true when
\* a is empty and false when a is non-empty and b is empty; IsSuperset(a, b)
\* equals IsSubset(b, a); IsDisjoint(a, b) is true iff no element is common,
\* true when either input is empty.
C16_SubsetSupersetDisjoint ==
    (Returned /\ last.call.op \in {"IsSubset", "IsSuperset", "IsDisjoint"})
        => LET a == last.call.a.elems
               b == last.call.b.elems
               res == last.out.val
           IN  /\ last.call.op = "IsSubset" =>
                      /\ res = (SetOf(a) \subseteq SetOf(b))
                      /\ a = <<>> => res
                      /\ (a # <<>> /\ b = <<>>) => ~res
               /\ last.call.op = "IsSuperset" =>
                      /\ res = (SetOf(b) \subseteq SetOf(a))
                      /\ res = IsSubset(last.call.b, last.call.a)
               /\ last.call.op = "IsDisjoint" =>
                      /\ res = (SetOf(a) \cap SetOf(b) = {})
                      /\ (a = <<>> \/ b = <<>>) => res

\* IsSubset answered true for two empty slices.
C16_Witness ==
    /\ Returned
    /\ last.call.op = "IsSubset"
    /\ last.call.a = Slice(<<>>)
    /\ last.call.b = Slice(<<>>)
    /\ last.out.val = TRUE

\* The first n elements of s.
Truncate(s, n) == SubSeq(s, 1, n)

\* C17: Zip(a, b) has length min(len(a), len(b)) and its i-th pair is
\* (a[i], b[i]); Unzip(Zip(a, b)) returns a and b truncated to that common
\* length, so on inputs of equal length Unzip is the inverse of Zip.
C17_ZipUnzip ==
    (Returned /\ last.call.op \in {"Zip", "Unzip"})
        => LET a == last.call.a.elems
               b == last.call.b.elems
               n == IF Len(a) < Len(b) THEN Len(a) ELSE Len(b)
           IN  /\ ~last.out.panic
               /\ last.call.op = "Zip" =>
                      /\ Len(last.out.val.elems) = n
                      /\ \A i \in 1 .. n :
                             /\ last.out.val.elems[i].First = a[i]
                             /\ last.out.val.elems[i].Second = b[i]
               /\ last.call.op = "Unzip" =>
                      /\ last.out.val[1].elems = Truncate(a, n)
                      /\ last.out.val[2].elems = Truncate(b, n)
                      /\ Len(a) = Len(b) =>
                             /\ last.out.val[1].elems = a
                             /\ last.out.val[2].elems = b

\* Unzip of the pairs of a longer and a shorter slice gave back the shorter
\* one and the matching prefix of the longer.
C17_Witness ==
    /\ Returned
    /\ last.call.op = "Unzip"
    /\ last.call.a = Slice(<<1, 2, 0>>)
    /\ last.call.b = Slice(<<0, 1>>)
    /\ last.out.val = <<Slice(<<1, 2>>), Slice(<<0, 1>>)>>

(***************************************************************************)
(* Properties of Unique, GroupBy and of the nil-preserving functions.      *)
(***************************************************************************)
\* C18: Unique(items) returns each distinct element of items exactly once,
\* ordered by first occurrence in items; later duplicates are dropped and
\* no element is added.
C18_UniqueFirstOccurrences ==
    (Returned /\ last.call.op = "Unique")
        => LET items == last.call.items.elems
           IN  /\ ~last.out.panic
               /\ DistinctInOrderOf(last.out.val.elems, items, SetOf(items))

\* Unique kept the first occurrence of the repeated element, ahead of the
\* element between its two occurrences.
C18_Witness ==
    /\ Returned
    /\ last.call.op = "Unique"
    /\ last.call.items = Slice(<<2, 1, 2>>)
    /\ last.out.val = Slice(<<2, 1>>)

\* The sum of the sizes of the groups with a key in keys.
RECURSIVE GroupSizes(_, _)
GroupSizes(groups, keys) ==
    IF keys = {} THEN 0
    ELSE LET k == CHOOSE x \in keys : TRUE
         IN  Len(groups[k]) + GroupSizes(groups, keys \ {k})

\* C19: GroupBy(items, key) maps each key k in the image of key to the
\* subsequence of items whose key is k, in input order; every item is in
\* exactly one group, no group is empty and the group sizes sum to
\* len(items).
C19_GroupByPartitions ==
    (Returned /\ last.call.op = "GroupBy")
        => LET items == last.call.items.elems
               key == last.call.fn
               groups == last.out.val
           IN  /\ ~last.out.panic
               /\ DOMAIN groups = {key[x] : x \in SetOf(items)}
               /\ \A k \in DOMAIN groups :
                      /\ groups[k] = SelectSeq(items, LAMBDA x : key[x] = k)
                      /\ groups[k] # <<>>
               /\ \A i \in 1 .. Len(items) :
                      Cardinality({k \in DOMAIN groups :
                                      items[i] \in SetOf(groups[k])}) = 1
               /\ GroupSizes(groups, DOMAIN groups) = Len(items)

\* GroupBy made two groups of three items, the larger one in input order.
C19_Witness ==
    /\ Returned
    /\ last.call.op = "GroupBy"
    /\ last.call.items = Slice(<<2, 1, 0>>)
    /\ last.call.fn = [v \in Vals |-> v % 2]
    /\ DOMAIN last.out.val = {0, 1}
    /\ last.out.val[0] = <<2, 0>>
    /\ last.out.val[1] = <<1>>

\* C20: Map, Filter, Unique, Flatten and Reverse keep the nil-versus-empty
\* distinction of their input: a nil input gives a nil result and an
\* empty-but-present input gives an empty-but-present (non-nil) result.
C20_NilAndEmptyPreserved ==
    (/\ Returned
     /\ last.call.op \in {"Map", "Filter", "Unique", "Flatten", "Reverse"})
        => /\ last.call.items.isNil => last.out = Ok(NilSlice)
           /\ last.call.items = Slice(<<>>) => last.out = Ok(Slice(<<>>))

\* Filter returned an empty non-nil slice for an empty non-nil input.
C20_Witness ==
    /\ Returned
    /\ last.call.op = "Filter"
    /\ last.call.items = Slice(<<>>)
    /\ last.out = Ok(Slice(<<>>))

(***************************************************************************)
(* Properties of the combinators of Result and Optional.                   *)
(***************************************************************************)
\* C22: for a present Optional o holding v and a total f, o.Map(f).Get()
\* returns (f(v), true) and f is applied exactly once; for an absent o,
\* o.Map(f) is absent and f is not applied.
C22_OptionalMapAppliesOnce ==
    last.op = "Optional.Map" =>
        LET f == last.args[1]
        IN  /\ last.o.valid =>
                  /\ <<last.ret.value, last.ret.valid>> = <<f[last.o.value], TRUE>>
                  /\ last.calls = <<Invoked("fn", last.o.value)>>
            /\ ~last.o.valid =>
                  /\ ~last.ret.valid
                  /\ last.calls = <<>>

\* Map turned a present 1 into a present 2 with one application of f.
C22_Witness ==
    /\ last.op = "Optional.Map"
    /\ last.o = OSome(1)
    /\ o = OSome(2)
    /\ Len(last.calls) = 1

\* C23: a.Or(b) is a when a is present and b otherwise; a.And(b) is b when a
\* is present and absent otherwise; a.Xor(b) is present exactly when exactly
\* one of a, b is present and then equals that one, and is absent when both
\* or neither are present.
C23_OrAndXor ==
    last.op \in {"Or", "And", "Xor"} =>
        LET a == last.o
            b == last.args[1]
        IN  /\ last.op = "Or" =>
                  last.ret = IF a.valid THEN a ELSE b
            /\ last.op = "And" =>
                  /\ a.valid => last.ret = b
                  /\ ~a.valid => ~last.ret.valid
                  /\ last.ret.valid <=> (a.valid /\ b.valid)
            /\ last.op = "Xor" =>
                  /\ last.ret.valid <=> (a.valid # b.valid)
                  /\ (a.valid /\ ~b.valid) => last.ret = a
                  /\ (~a.valid /\ b.valid) => last.ret = b

\* Xor of two present Optionals is absent.
C23_Witness ==
    /\ last.op = "Xor"
    /\ last.o = OSome(1)
    /\ last.args[1] = OSome(2)
    /\ ~o.valid

\* C24: FlattenResult(x) returns a failure carrying the outer error when the
\* outer Result is a failure, and otherwise the inner Result unchanged,
\* whether the inner Result is a success or a failure.
C24_FlattenResult ==
    last.op = "FlattenResult" =>
        LET x == last.args[1]
        IN  /\ IsErr(x) => (IsErr(last.ret) /\ last.ret.err = x.err)
            /\ IsOk(x) => last.ret = x.data

\* A successful outer Result holding a failure came back as that failure.
C24_Witness ==
    /\ last.op = "FlattenResult"
    /\ IsOk(last.args[1])
    /\ IsErr(last.args[1].data)
    /\ r = last.args[1].data

\* C25: OrElse, UnwrapOrElse and InspectErr never invoke their function on a
\* success; Map and Inspect never on a failure; Optional.OrElseFn and OrFn
\* never on a present value and Optional.Inspect never on an absent one;
\* Match and OMatch invoke exactly one of their two branches, exactly once,
\* and return its result.
C25_CallbacksRunInTheirState ==
    /\ (last.op \in {"OrElse", "UnwrapOrElse", "InspectErr"} /\ IsOk(last.r))
           => last.calls = <<>>
    /\ (last.op \in {"Map", "Inspect"} /\ IsErr(last.r)) => last.calls = <<>>
    /\ (last.op \in {"OrElseFn", "OrFn"} /\ last.o.valid) => last.calls = <<>>
    /\ (last.op = "Optional.Inspect" /\ ~last.o.valid) => last.calls = <<>>
    /\ last.op = "Match" =>
           /\ Len(last.calls) = 1
           /\ IF IsErr(last.r)
              THEN /\ last.calls[1] = Invoked("errFn", last.r.err)
                   /\ last.ret = last.args[2][last.r.err]
              ELSE /\ last.calls[1] = Invoked("okFn", last.r.data)
                   /\ last.ret = last.args[1][last.r.data]
    /\ last.op = "OMatch" =>
           /\ Len(last.calls) = 1
           /\ IF last.o.valid
              THEN /\ last.calls[1] = Invoked("someFn", last.o.value)
                   /\ last.ret = last.args[1][last.o.value]
              ELSE /\ last.calls[1] = InvokedThunk("noneFn")
                   /\ last.ret = last.args[2]

\* Match on a failure ran errFn alone, although okFn would have returned
\* another value.
C25_Witness ==
    /\ last.op = "Match"
    /\ IsErr(last.r)
    /\ last.calls = <<Invoked("errFn", last.r.err)>>
    /\ last.args[1][last.r.data] # last.ret

\* C27: no combinator other than OrElse turns a failure into a success: for
\* a failure r, the results of r.Map(f), r.MapErr(g), r.AndThen(f),
\* r.Inspect(f), r.InspectErr(g), MapTo(r, f) and AndThenTo(r, f) are
\* failures, whatever f and g return.
C27_FailuresStayFailures ==
    (/\ last.op \in {"Map", "MapErr", "AndThen", "Inspect", "InspectErr",
                     "MapTo", "AndThenTo"}
     /\ IsErr(last.r))
        => IsErr(last.ret)

\* C28: the invalid slot is never observable as data: every failure Result
\* built by the constructors and combinators holds the zero value, so Get
\* and GetWithError return it (Try discards a value returned together with
\* an error); every absent Optional so built holds the zero value, so Get
\* returns it with false (OFromOk and OFromErr discard the supplied value).
C28_InvalidSlotIsZero ==
    /\ IsErr(r) => r.data = Zero
    /\ ~o.valid => o.value = Zero
    /\ (last.op = "Get" /\ IsErr(last.r)) => last.ret = <<Zero, FALSE>>
    /\ (last.op = "GetWithError" /\ IsErr(last.r))
           => last.ret = <<Zero, last.r.err>>
    /\ (last.op = "Optional.Get" /\ ~last.o.valid) => last.ret = <<Zero, FALSE>>
    /\ (last.op = "Try" /\ last.e # NilErr) => last.ret = RErr(last.e)
    /\ (last.op \in {"OFromOk", "OFromErr"} /\ ~last.ret.valid)
           => last.ret = ONone

\* OFromOk was handed a non-zero value with ok false and the caller holds
\* an absent Optional with the zero value.
C28_Witness ==
    /\ last.op = "OFromOk"
    /\ last.args = <<2, FALSE>>
    /\ o = ONone

(***************************************************************************)
(* Two goroutines call Add on one shared MultiError.  Add takes no lock:   *)
(* m.errors = append(m.errors, err) loads m.errors, appends to the value   *)
(* it loaded and stores the result, and another goroutine can run between  *)
(* the load and the store.  procs.serialize tells whether the callers      *)
(* guard their Add calls with a mutex of their own; procs.mutex is its     *)
(* holder.                                                                 *)
(***************************************************************************)
Goroutines == {"g1", "g2"}
NoHolder == "none"

\* The state of goroutine g: pc is "start" before its call, "call" at the
\* entry of Add, "loaded" between the load and the store of m.errors,
\* "returned" after Add and "done" once the caller has moved on.
Goroutine(g) == procs.g[g]

SetGoroutine(g, pc, loaded, mutex) ==
    procs' = [procs EXCEPT !.g[g].pc = pc, !.g[g].loaded = loaded,
                           !.mutex = mutex]

\* The caller of g starts its Add call; serializing callers first take the
\* mutex.
Begin(g) ==
    /\ Goroutine(g).pc = "start"
    /\ procs.serialize => procs.mutex = NoHolder
    /\ SetGoroutine(g, "call", Goroutine(g).loaded,
                    IF procs.serialize THEN g ELSE procs.mutex)
    /\ UNCHANGED <<r, o, last, errors, hist, call, mem>>

\* if err != nil, and the load of m.errors for append.
AddLoad(g) ==
    /\ Goroutine(g).pc = "call"
    /\ IF Goroutine(g).err # NilErr
       THEN SetGoroutine(g, "loaded", errors, procs.mutex)
       ELSE SetGoroutine(g, "returned", Goroutine(g).loaded, procs.mutex)
    /\ UNCHANGED <<r, o, last, errors, hist, call, mem>>

\* The store of append's result into m.errors.
AddStore(g) ==
    /\ Goroutine(g).pc = "loaded"
    /\ errors' = Add(Goroutine(g).loaded, Goroutine(g).err)
    /\ SetGoroutine(g, "returned", Goroutine(g).loaded, procs.mutex)
    /\ UNCHANGED <<r, o, last, hist, call, mem>>

\* Add has returned; serializing callers release the mutex.
Finish(g) ==
    /\ Goroutine(g).pc = "returned"
    /\ SetGoroutine(g, "done", Goroutine(g).loaded,
                    IF procs.serialize THEN NoHolder ELSE procs.mutex)
    /\ UNCHANGED <<r, o, last, errors, hist, call, mem>>

InitSharedAdd ==
    /\ r = ROk(Zero)
    /\ o = ONone
    /\ last = NoCall
    /\ errors = NewMultiError
    /\ hist = <<>>
    /\ call = NoCall
    /\ mem = <<>>
    /\ \E serialize \in BOOLEAN, errs \in [Goroutines -> ErrArgs] :
           procs = [serialize |-> serialize, mutex |-> NoHolder,
                    g |-> [g \in Goroutines |->
                              [pc |-> "start", err |-> errs[g],
                               loaded |-> <<>>]]]

NextSharedAdd ==
    \E g \in Goroutines :
        \/ Begin(g)
        \/ AddLoad(g)
        \/ AddStore(g)
        \/ Finish(g)

SpecSharedAdd == InitSharedAdd /\ [][NextSharedAdd]_vars

AllDone == \A g \in Goroutines : Goroutine(g).pc = "done"

\* C26: MultiError has no internal synchronization.  When the callers
\* serialize their Add calls, every non-nil error handed to Add is recorded
\* once all calls are done (both errors for two non-nil errors); without
\* serialization a state with fewer recorded errors is reachable.
C26_SerializedAddsRecordAll ==
    (AllDone /\ procs.serialize)
        => LET given == {g \in Goroutines : Goroutine(g).err # NilErr}
           IN  /\ Len(errors) = Cardinality(given)
               /\ \A g \in given :
                      \E i \in 1 .. Len(errors) : errors[i] = Goroutine(g).err

\* A lost update: both goroutines added a non-nil error without
\* serialization and only one error is recorded.
C26_Witness ==
    /\ AllDone
    /\ ~procs.serialize
    /\ \A g \in Goroutines : Goroutine(g).err # NilErr
    /\ Len(errors) < 2

(***************************************************************************)
(* The collection combinators on slices with backing arrays.  mem[k] is    *)
(* array number k; a slice is a view [arr, off, len, cap] of an array, and *)
(* the nil slice is the view of no array.  The inputs of the call are the  *)
(* arrays the run starts with.  A combinator that builds its result with   *)
(* make, a literal or append to a fresh slice gets a new array for it;     *)
(* items[i:end] is a view of the array of items.  After the call the       *)
(* caller may overwrite an element of a returned slice or append to it.    *)
(***************************************************************************)
NilView == [arr |-> 0, off |-> 0, len |-> 0, cap |-> 0]
View(arr, off, len, cap) == [arr |-> arr, off |-> off, len |-> len, cap |-> cap]

\* The elements of the slice s in the memory m.
Elems(m, s) == [i \in 1 .. s.len |-> m[s.arr][s.off + i]]

\* result := make(...) filled with the elements of res, or a nil result:
\* a new array, of capacity len (append may round the capacity up; the
\* spare room is then in the new array as well).
Fresh(m, res) ==
    IF res.isNil THEN [mem |-> m, s |-> NilView]
    ELSE [mem |-> Append(m, res.elems),
          s |-> View(Len(m) + 1, 0, Len(res.elems), Len(res.elems))]

\* One new array for each of the slices a call returns.
RECURSIVE FreshAll(_, _, _)
FreshAll(m, slices, out) ==
    IF slices = <<>> THEN [mem |-> m, out |-> out]
    ELSE LET b == Fresh(m, Head(slices))
         IN  FreshAll(b.mem, Tail(slices), Append(out, b.s))

\* Reduce's loop over the elements items with the accumulator result.
RECURSIVE Reduce(_, _, _)
Reduce(items, result, fn) ==
    IF items = <<>> THEN result
    ELSE Reduce(Tail(items), fn[<<result, Head(items)>>], fn)

Partition(items, fn) ==
    <<Slice(SelectSeq(items.elems, LAMBDA item : fn[item])),
      Slice(SelectSeq(items.elems, LAMBDA item : ~fn[item]))>>

\* Chunk's loop on the array of items: items[i:end] has length end - i and
\* capacity cap(items) - i.
RECURSIVE ChunkViews(_, _, _, _)
ChunkViews(n, size, i, result) ==
    IF ~(i < n) THEN result
    ELSE LET end == IF i + size > n THEN n ELSE i + size
         IN  ChunkViews(n, size, i + size,
                        Append(result, View(1, i, end - i, n - i)))

\* Callbacks of type func(R, T) R.
FnsRT == {[p \in Vals \X Vals |-> (p[1] + p[2]) % (MaxVal + 1)],
          [p \in Vals \X Vals |-> IF p[1] > p[2] THEN p[1] ELSE p[2]]}
\* Short slices, nil included, and the second slices of the set operations.
HeapInputs == {NilSlice} \cup {Slice(s) : s \in SeqsUpTo(Vals, MaxLen - 1)}
SecondInputs == {NilSlice} \cup {Slice(s) : s \in SeqsUpTo(Vals, 1)}

HeapCalls ==
    [op : {"Map"}, items : HeapInputs, fn : FnsTT]
        \cup [op : {"Filter", "Partition"}, items : HeapInputs, fn : FnsTB]
        \cup [op : {"Reduce"}, items : HeapInputs, init : Vals, fn : FnsRT]
        \cup [op : {"Unique", "Reverse"}, items : HeapInputs]
        \cup [op : {"GroupBy"}, items : HeapInputs, fn : FnsTK]
        \cup [op : {"Chunk"}, items : HeapInputs, size : Ints]
        \cup [op : {"Flatten"}, items : SliceOfSliceInputs]
        \cup [op : {"Intersect", "Union", "Difference", "SymmetricDifference",
                    "Zip", "Unzip"},
              a : HeapInputs, b : SecondInputs]

\* The arrays of the inputs of the call c: of items, or of a and b, or of
\* the pairs handed to Unzip, or of the outer slice of Flatten (array 1,
\* holding the views of the inner slices) and of the inner slices.
InitialMem(c) ==
    CASE c.op \in {"Intersect", "Union", "Difference", "SymmetricDifference",
                   "Zip"} -> <<c.a.elems, c.b.elems>>
      [] c.op = "Unzip" -> <<Zip(c.a, c.b).val.elems>>
      [] c.op = "Flatten" ->
             <<[k \in 1 .. Len(c.items.elems) |->
                   IF c.items.elems[k].isNil THEN NilView
                   ELSE View(k + 1, 0, Len(c.items.elems[k].elems),
                             Len(c.items.elems[k].elems))]>>
                 \o [k \in 1 .. Len(c.items.elems) |-> c.items.elems[k].elems]
      [] OTHER -> <<c.items.elems>>

\* The inputs as the call reads them from memory.
Items == IF call.items.isNil THEN NilSlice ELSE Slice(mem[1])
InputA == IF call.a.isNil THEN NilSlice ELSE Slice(mem[1])
InputB == IF call.b.isNil THEN NilSlice ELSE Slice(mem[2])
InputNested ==
    IF call.items.isNil THEN NilSlice
    ELSE Slice([k \in 1 .. Len(mem[1]) |->
                   IF mem[1][k].arr = 0 THEN NilSlice
                   ELSE Slice(Elems(mem, mem[1][k]))])

\* The call returns: m is the memory it leaves, out the slices it returns
\* and val the value it returns when that is no slice.
HeapReturn(m, out, val) ==
    /\ last = NoCall
    /\ mem' = m
    /\ last' = [call |-> call, out |-> out, val |-> val, phase |-> "returned"]
    /\ UNCHANGED <<r, o, errors, hist, call, procs>>

\* The call returns the slices, each in an array of its own.
ReturnFresh(slices) ==
    LET b == FreshAll(mem, slices, <<>>) IN HeapReturn(b.mem, b.out, Zero)

HeapMap == call.op = "Map" /\ ReturnFresh(<<Map(Items, call.fn).val>>)

HeapFilter == call.op = "Filter" /\ ReturnFresh(<<Filter(Items, call.fn).val>>)

HeapReduce ==
    /\ call.op = "Reduce"
    /\ HeapReturn(mem, <<>>, Reduce(Items.elems, call.init, call.fn))

HeapUnique == call.op = "Unique" /\ ReturnFresh(<<Unique(Items).val>>)

\* Every group of the map is a slice grown by append from nil.
HeapGroupBy ==
    /\ call.op = "GroupBy"
    /\ LET groups == GroupBy(Items, call.fn).val
           keys == SelectSeq([k \in 1 .. MaxVal + 1 |-> k - 1],
                             LAMBDA k : k \in DOMAIN groups)
       IN  ReturnFresh([i \in 1 .. Len(keys) |-> Slice(groups[keys[i]])])

\* The chunks are items[i:end]: views of the array of items.
HeapChunk ==
    /\ call.op = "Chunk"
    /\ LET res == Chunk(Items, call.size)
       IN  IF res.panic \/ res.val.isNil
           THEN HeapReturn(mem, <<>>, res)
           ELSE HeapReturn(mem, ChunkViews(Len(mem[1]), call.size, 0, <<>>), res)

HeapFlatten == call.op = "Flatten" /\ ReturnFresh(<<Flatten(InputNested).val>>)

HeapReverse_InPlace ==
    /\ call.op = "Reverse"
    /\ HeapReturn([mem EXCEPT ![1] = Reverse(Items).val.elems],
                  <<IF call.items.isNil THEN NilView
                    ELSE View(1, 0, Len(mem[1]), Len(mem[1]))>>, Zero)
HeapReverse == call.op = "Reverse" /\ ReturnFresh(<<Reverse(Items).val>>)

HeapIntersect ==
    call.op = "Intersect" /\ ReturnFresh(<<Intersect(InputA, InputB)>>)

HeapUnion == call.op = "Union" /\ ReturnFresh(<<Union(InputA, InputB)>>)

\* Also for an empty b: append([]T{}, a...) copies a into a new array.
HeapDifference ==
    call.op = "Difference" /\ ReturnFresh(<<Difference(InputA, InputB)>>)

HeapSymmetricDifference ==
    /\ call.op = "SymmetricDifference"
    /\ ReturnFresh(<<SymmetricDifference(InputA, InputB)>>)

HeapPartition == call.op = "Partition" /\ ReturnFresh(Partition(Items, call.fn))

HeapZip == call.op = "Zip" /\ ReturnFresh(<<Zip(InputA, InputB).val>>)

\* The input of Unzip is the slice of pairs in array 1.
HeapUnzip == call.op = "Unzip" /\ ReturnFresh(Unzip(Slice(mem[1])))

\* What the caller stores into a slice it got back: a value that is not in
\* the inputs.
Stored == Zero - 1

\* The caller overwrites an element of a returned slice: s[i] = Stored.
Overwrite ==
    /\ last # NoCall
    /\ last.phase = "returned"
    /\ \E k \in 1 .. Len(last.out) :
           \E i \in 1 .. last.out[k].len :
               LET s == last.out[k]
               IN  mem' = [mem EXCEPT ![s.arr][s.off + i] = Stored]
    /\ last' = [last EXCEPT !.phase = "written"]
    /\ UNCHANGED <<r, o, errors, hist, call, procs>>

\* The caller appends to a returned slice: append(s, Stored) writes into the
\* array of s when len(s) < cap(s) and into a new array otherwise.
AppendTo ==
    /\ last # NoCall
    /\ last.phase = "returned"
    /\ \E k \in 1 .. Len(last.out) :
           LET s == last.out[k]
           IN  mem' = IF s.len < s.cap
                      THEN [mem EXCEPT ![s.arr][s.off + s.len + 1] = Stored]
                      ELSE Append(mem, Append(Elems(mem, s), Stored))
    /\ last' = [last EXCEPT !.phase = "written"]
    /\ UNCHANGED <<r, o, errors, hist, call, procs>>

InitHeap ==
    /\ r = ROk(Zero)
    /\ o = ONone
    /\ last = NoCall
    /\ errors = NewMultiError
    /\ hist = <<>>
    /\ call \in HeapCalls
    /\ mem = InitialMem(call)
    /\ procs = <<>>

NextHeap ==
    \/ HeapMap
    \/ HeapFilter
    \/ HeapReduce
    \/ HeapUnique
    \/ HeapGroupBy
    \/ HeapChunk
    \/ HeapFlatten
    \/ HeapReverse
    \/ HeapIntersect
    \/ HeapUnion
    \/ HeapDifference
    \/ HeapSymmetricDifference
    \/ HeapPartition
    \/ HeapZip
    \/ HeapUnzip
    \/ Overwrite
    \/ AppendTo

SpecHeap == InitHeap /\ [][NextHeap]_vars

\* Every input array holds what it held when the call was made.
InputsUnchanged ==
    \A k \in 1 .. Len(InitialMem(call)) : mem[k] = InitialMem(call)[k]

\* C21: no collection or set combinator modifies its input: after a call to
\* Map, Filter, Reduce, Unique, GroupBy, Chunk, Flatten, Reverse, Intersect,
\* Union, Difference, SymmetricDifference, Partition, Zip or Unzip every
\* input has the same length and the same elements in the same positions as
\* before the call.
C21_CombinatorsKeepInputs ==
    (last # NoCall /\ last.phase = "returned") => InputsUnchanged

\* Reverse returned the reversed elements in another array and left its
\* input as it was.
C21_Witness ==
    /\ last # NoCall
    /\ last.phase = "returned"
    /\ call.op = "Reverse"
    /\ mem[1] = <<1, 2>>
    /\ last.out[1].arr # 1
    /\ Elems(mem, last.out[1]) = <<2, 1>>

\* C29: the slices the combinators return share no storage with the inputs:
\* overwriting an element of a returned slice, or appending to it, leaves
\* the elements of every input unchanged (for each chunk returned by Chunk
\* and for the result of Difference, an empty b included).
C29_ResultsShareNoStorage ==
    (last # NoCall /\ last.phase = "written") => InputsUnchanged

\* C30: RangeStep(start, end, step) terminates for every start, end and
\* step of the machine integer range: it returns an empty-but-present slice
\* when step is 0 or does not lead from start towards end, and otherwise
\* exactly start, start+step, start+2*step, ... up to but excluding end, with
\* no wrapped-around value.
C30_RangeStepTerminatesExact ==
    (Returned /\ last.call.op = "RangeStep")
        => LET start == last.call.start
               end == last.call.end
               step == last.call.step
               n == IF \/ step = 0
                       \/ (step > 0 /\ end <= start)
                       \/ (step < 0 /\ end >= start)
                    THEN 0
                    ELSE (Abs(end - start) + Abs(step) - 1) \div Abs(step)
           IN  /\ ~last.out.hang
               /\ ~last.out.panic
               /\ last.out.val = Slice([i \in 1 .. n |-> start + (i - 1) * step])

=============================================================================
